---- MODULE Spec2Model ----
(***************************************************************************)
(* Model of the pocketfft Python front end (pypocketfft.cxx): axis         *)
(* resolution, element-type dispatch, output-buffer resolution, the        *)
(* normalization factor, the scoped release of the interpreter lock, and   *)
(* the two mirror-iteration passes (Hermitian completion, Hartley fold).   *)
(*                                                                         *)
(* Arrays are C-contiguous; offsets and strides are counted in elements.   *)
(* Array ranks are >= 1.  The transform kernels and the iterators of       *)
(* pocketfft_hdronly.h are not part of this file: they are modelled by     *)
(* their interface (see KernelValue, rev_iter, simple_iter).               *)
(***************************************************************************)
EXTENDS Integers, Sequences, FiniteSets, TLC

\* ------------------------------------------------------------- bounds
MaxRank == 2
MaxDim == 3
MaxSize == 4
AxMaxRank == 3

\* ------------------------------------------------------------ helpers
RECURSIVE Prod(_)
Prod(s) == IF s = <<>> THEN 1 ELSE Head(s) * Prod(Tail(s))

Last(s) == s[Len(s)]

SeqsUpTo(S, n) == UNION {[1..k -> S] : k \in 0..n}

Shapes == {s \in UNION {[1..r -> 1..MaxDim] : r \in 1..MaxRank} : Prod(s) <= MaxSize}

\* An optional axis list: None, or a list of signed integers.
NoneAxes == [none |-> TRUE, list |-> <<>>]

ListAxes(l) == [none |-> FALSE, list |-> l]

Ok(v) == [ok |-> TRUE, err |-> "", val |-> v]

Err(msg) == [ok |-> FALSE, err |-> msg, val |-> <<>>]

\* ------------------------------------------------------------ makeaxes
makeaxes_NoNormalize(ndim, axes_arg) ==
  IF axes_arg.none THEN Ok([i \in 1..ndim |-> i - 1])
  ELSE LET tmp == axes_arg.list IN
       IF Len(tmp) > ndim \/ Len(tmp) = 0 THEN Err("bad axes argument")
       ELSE IF \E i \in 1..Len(tmp) : tmp[i] >= ndim \/ tmp[i] < 0
            THEN Err("axes exceeds dimensionality of output")
            ELSE Ok(tmp)

makeaxes_NoUpperCheck(ndim, axes_arg) ==
  IF axes_arg.none THEN Ok([i \in 1..ndim |-> i - 1])
  ELSE LET tmp == axes_arg.list
           sz == [i \in 1..Len(tmp) |-> IF tmp[i] < 0 THEN tmp[i] + ndim ELSE tmp[i]]
       IN  IF Len(tmp) > ndim \/ Len(tmp) = 0 THEN Err("bad axes argument")
           ELSE IF \E i \in 1..Len(tmp) : sz[i] < 0
                THEN Err("axes exceeds dimensionality of output")
                ELSE Ok(sz)

\* makeaxes(in, axes): the resolved axis list, or the error it throws.
makeaxes(ndim, axes_arg) ==
  IF axes_arg.none THEN Ok([i \in 1..ndim |-> i - 1])
  ELSE LET tmp == axes_arg.list
           sz == [i \in 1..Len(tmp) |-> IF tmp[i] < 0 THEN tmp[i] + ndim ELSE tmp[i]]
       IN  IF Len(tmp) > ndim \/ Len(tmp) = 0 THEN Err("bad axes argument")
           ELSE IF \E i \in 1..Len(tmp) : sz[i] >= ndim \/ sz[i] < 0
                THEN Err("axes exceeds dimensionality of output")
                ELSE Ok(sz)

\* ------------------------------------------------------------ DISPATCH
\* The element types of the arrays of a call.  longfloat and longcomplex go
\* the way of the other two precisions (and ldbl_t is double where long double
\* is no wider), so they are not drawn; "i64" stands for the types DISPATCH
\* does not know.
Dtypes == {"f32", "f64", "c64", "c128", "i64"}

ComplexDtype(T_) == CASE T_ = "double" -> "c128" [] T_ = "float" -> "c64" [] OTHER -> "clong"

RealDtype(T_) == CASE T_ = "double" -> "f64" [] T_ = "float" -> "f32" [] OTHER -> "flong"

\* DISPATCH(arr, T1, T2, T3, func, args): the instantiation chosen, or the throw.
DISPATCH(dtype, T1, T2, T3) ==
  IF dtype = T1 THEN "double"
  ELSE IF dtype = T2 THEN "float"
  ELSE IF dtype = T3 THEN "ldbl"
  ELSE "unsupported"

\* The template function each public operation dispatches to first, and the
\* type test it makes on the input array.
dispatch_complex(o, dtype) ==
  \/ o = "c2r"
  \/ o = "c2c" /\ dtype \in {"c64", "c128", "clong"}

first_fn(o, dtype) ==
  CASE o = "c2c" -> IF dispatch_complex(o, dtype) THEN "c2c_internal" ELSE "c2c_sym_internal"
    [] o = "r2c" -> "r2c_internal"
    [] o = "r2r_fftpack" -> "r2r_fftpack_internal"
    [] o = "c2r" -> "c2r_internal"
    [] o = "separable_hartley" -> "separable_hartley_internal"
    [] OTHER -> "r2c_internal"

dispatch_T(o, dtype) ==
  IF dispatch_complex(o, dtype)
  THEN DISPATCH(dtype, "c128", "c64", "clong")
  ELSE DISPATCH(dtype, "f64", "f32", "flong")

\* ------------------------------------------------------------ norm_fct
\* A scale factor 1/den or 1/sqrt(den); the factor 1 is den = 1.
Scale(den, sq) == [den |-> den, sqrt |-> sq /\ den # 1]

NoScale == [den |-> 0, sqrt |-> FALSE]

RECURSIVE ProdOver(_, _)
ProdOver(shape, ax) ==
  IF ax = <<>> THEN 1 ELSE shape[Head(ax) + 1] * ProdOver(shape, Tail(ax))

norm_fct_N(inorm_, N) ==
  IF inorm_ = 0 THEN Ok(Scale(1, FALSE))
  ELSE IF inorm_ = 2 THEN Ok(Scale(N, FALSE))
  ELSE IF inorm_ = 1 THEN Ok(Scale(N, TRUE))
  ELSE Err("invalid value for inorm (must be 0, 1, or 2)")

norm_fct(inorm_, shape, ax) ==
  IF inorm_ = 0 THEN Ok(Scale(1, FALSE))
  ELSE norm_fct_N(inorm_, ProdOver(shape, ax))

\* ------------------------------------------------------------- arrays
\* An element: the content the buffer had before the call ("init"), a value
\* written during the call ("val"), or an indeterminate value ("indet").
InitElem(i) == [kind |-> "init", re |-> i, im |-> 0]

Val(re, im) == [kind |-> "val", re |-> re, im |-> im]

Indet == [kind |-> "indet", re |-> 0, im |-> 0]

conj(v) == IF v.kind = "val" THEN Val(v.re, 0 - v.im) ELSE Indet

NoArr == [dtype |-> "none", shape |-> <<>>, data |-> <<>>]

UnreadArr == [dtype |-> "unread", shape |-> <<>>, data |-> <<>>]

NewArr(dtype, dims) ==
  [dtype |-> dtype, shape |-> dims, data |-> [i \in 1..Prod(dims) |-> InitElem(i - 1)]]

\* copy_strides on a C-contiguous array, in elements.
copy_strides(shape) ==
  [i \in 1..Len(shape) |-> Prod(SubSeq(shape, i + 1, Len(shape)))]

RECURSIVE Dot(_, _)
Dot(pos, str) ==
  IF pos = <<>> THEN 0 ELSE Head(pos) * Head(str) + Dot(Tail(pos), Tail(str))

\* The i-th position (from 0) of a row-major walk of shape shp.
Unrank(i, shp) ==
  [d \in 1..Len(shp) |-> (i \div copy_strides(shp)[d]) % shp[d]]

\* ------------------------------------------------------ prepare_output
\* prepare_output<T>(out_, dims): which array the result is, or the throw.
prepare_output(required, out_arg) ==
  IF out_arg.dtype = "none" THEN Ok("fresh")
  ELSE IF out_arg.dtype # required
       THEN Err("unexpected data type for output array")
       ELSE Ok("out_")

\* ------------------------------------------------------------ iterators
\* simple_iter / rev_iter: a row-major walk (last axis fastest) of the
\* iteration shape shp, with the count of elements still to visit.
ZeroPos(n) == [i \in 1..n |-> 0]

NoIter == [pos |-> <<>>, shp |-> <<>>, rem |-> 0]

simple_iter(shape) == [pos |-> ZeroPos(Len(shape)), shp |-> shape, rem |-> Prod(shape)]

\* rev_iter(arr, axes): walks the half of arr whose last transformed axis
\* is cut to shape/2 + 1.
rev_shp(shape, ax) == [shape EXCEPT ![Last(ax) + 1] = (shape[Last(ax) + 1] \div 2) + 1]

rev_iter(shape, ax) ==
  [pos |-> ZeroPos(Len(shape)), shp |-> rev_shp(shape, ax), rem |-> Prod(rev_shp(shape, ax))]

RECURSIVE Odometer(_, _, _)
Odometer(pos, shp, i) ==
  IF i = 0 THEN pos
  ELSE IF pos[i] + 1 < shp[i] THEN [pos EXCEPT ![i] = @ + 1]
  ELSE Odometer([pos EXCEPT ![i] = 0], shp, i - 1)

advance(it) == [it EXCEPT !.pos = Odometer(it.pos, it.shp, Len(it.pos)), !.rem = @ - 1]

\* The mirror of a position: every transformed coordinate i becomes
\* (length - i) mod length.
Mirror(pos, shape, ax) ==
  [d \in 1..Len(pos) |->
     IF \E k \in 1..Len(ax) : ax[k] + 1 = d
     THEN (shape[d] - pos[d]) % shape[d] ELSE pos[d]]

ofs(it, str) == Dot(it.pos, str)

rev_ofs(it, shape, ax, str) == Dot(Mirror(it.pos, shape, ax), str)

\* -------------------------------------------------------------- kernel
\* The shape the kernel iterates when it writes its output: the one-sided
\* shape for the real-to-complex kernel, the shape it is given otherwise.
kernel_out_dims(f, dims, ax) ==
  IF f \in {"r2c_internal", "c2c_sym_internal"} THEN rev_shp(dims, ax) ELSE dims

\* The value the kernel produces at a position.  The real-to-complex kernel
\* yields a Hermitian spectrum: the values at a position and at its mirror
\* are conjugates, and a position that is its own mirror holds a real value.
\* Values at different mirror classes differ.
KernelValue(f, dims, ax, pos) ==
  LET l == Dot(pos, copy_strides(dims))
      m == Dot(Mirror(pos, dims, ax), copy_strides(dims))
      c == IF l < m THEN l ELSE m
  IN  CASE f \in {"r2c_internal", "c2c_sym_internal"} ->
             Val(c + 1, IF l = m THEN 0 ELSE IF l < m THEN c + 1 ELSE 0 - (c + 1))
        [] f = "c2c_internal" -> Val(l + 1, l + 1)
        [] OTHER -> Val(l + 1, 0)

\* Whether the kernel, walking kdims with the strides of an array of shape
\* shape, addresses an element outside that array.
OutOfBounds(shape, kdims) ==
  \E i \in 0..(Prod(kdims) - 1) : Dot(Unrank(i, kdims), copy_strides(shape)) >= Prod(shape)

\* The array after the kernel wrote the first j positions of kdims.
KernelWrite(arr, f, dims, ax, kdims, j) ==
  LET str == copy_strides(arr.shape)
      W(o) == {i \in 0..(j - 1) : Dot(Unrank(i, kdims), str) = o}
  IN  [arr EXCEPT !.data =
        [n \in 1..Len(arr.data) |->
           IF W(n - 1) = {} THEN arr.data[n]
           ELSE IF Cardinality(W(n - 1)) = 1
                THEN KernelValue(f, dims, ax, Unrank(CHOOSE i \in W(n - 1) : TRUE, kdims))
                ELSE Indet]]

\* ------------------------------------------------------ scoped release
\* py::gil_scoped_release: the constructor gives the lock up, the destructor
\* takes it back, on a normal exit of the block and on a throw out of it.
gil_release(g) == g - 1

scope_exit(g) == g + 1

scope_exit_throw_Leak(g) == g

scope_exit_throw(g) == g + 1

\* --------------------------------------------------------------- state
VARIABLES
  pc,        \* position in the call
  op,        \* the public operation called
  fn,        \* the template function now executing
  T,         \* its element type
  dims_in,   \* the shape of the input array
  axes_,     \* the axes argument, while it is still to be read again
  axes,      \* the resolved axes
  lastsize_, \* the lastsize argument of c2r
  lastsize,  \* the local lastsize of c2r_internal
  inorm,     \* the inorm argument
  fct,       \* the scale factor passed to the kernel
  out_,      \* the caller's out array
  fresh,     \* the array prepare_output allocated
  res,       \* which array is the result: "out_" or "fresh"
  tmp,       \* genuine_hartley: the one-sided spectrum of the first stage
  iin,       \* complex2hartley: the iterator over tmp
  iout,      \* the rev_iter over the result (iter in c2c_sym_internal)
  err,       \* the error the call raised
  gil,       \* how often the calling thread holds the interpreter lock
  ub         \* an access outside the result array has happened

vars == <<pc, op, fn, T, dims_in, axes_, axes, lastsize_, lastsize, inorm, fct,
          out_, fresh, res, tmp, iin, iout, err, gil, ub>>

Ops == {"c2c", "r2c", "r2r_fftpack", "c2r", "separable_hartley", "genuine_hartley"}

UnreadAxes == [none |-> FALSE, list |-> <<-1000>>]

NoInt == 0 - 1000

\* The locals of the template function, before it starts and after the stack
\* is unwound.
NoLocals ==
  /\ fn' = "none" /\ T' = "none" /\ axes_' = UnreadAxes /\ axes' = <<>>
  /\ lastsize' = NoInt /\ fct' = NoScale /\ fresh' = NoArr /\ res' = "none"
  /\ tmp' = NoArr /\ iin' = NoIter /\ iout' = NoIter

Init ==
  /\ pc = "idle" /\ op = "none" /\ fn = "none" /\ T = "none"
  /\ dims_in = <<>> /\ axes_ = UnreadAxes /\ axes = <<>>
  /\ lastsize_ = NoInt /\ lastsize = NoInt /\ inorm = NoInt /\ fct = NoScale
  /\ out_ = UnreadArr /\ fresh = NoArr /\ res = "none" /\ tmp = NoArr
  /\ iin = NoIter /\ iout = NoIter /\ err = "" /\ gil = 1 /\ ub = FALSE

\* ------------------------------------------------------------ arguments
\* The axes arguments of a call: None, the lists of up to ndim entries, and
\* one list that is too long.
AxesArgs(ndim) ==
  {NoneAxes} \cup {ListAxes(l) : l \in SeqsUpTo((0 - ndim)..ndim, ndim)}
             \cup {ListAxes([i \in 1..(ndim + 1) |-> 0])}

LastsizeArgs == 0..(2 * MaxDim + 1)

InormArgs == (0 - 1)..3

\* The out arguments of a call: None, or an array of any element type whose
\* shape is the input's, but for one axis that may be one longer or shorter.
OutShapes(shape) ==
  {s \in [1..Len(shape) -> 1..(MaxDim + 1)] :
     \E d \in 1..Len(shape) :
       /\ s[d] \in {shape[d] - 1, shape[d], shape[d] + 1}
       /\ \A e \in 1..Len(shape) : e # d => s[e] = shape[e]}

OutArgs(shape) ==
  {NoArr} \cup {NewArr(d, s) : d \in Dtypes, s \in OutShapes(shape)}

\* An argument that was read before is the same when it is read again.
AxesArgsLeft == IF axes_ = UnreadAxes THEN AxesArgs(Len(dims_in)) ELSE {axes_}

OutArgsLeft == IF out_ = UnreadArr THEN OutArgs(dims_in) ELSE {out_}

\* The array the result is.
ResArr == IF res = "out_" THEN out_ ELSE fresh

\* The shape c2r_internal gives the kernel: the input's, lastsize on the last
\* transformed axis.
c2r_dims_out == [dims_in EXCEPT ![Last(axes) + 1] = lastsize]

\* --------------------------------------------------------------- steps
first_step(f) ==
  IF f \in {"separable_hartley_internal", "complex2hartley"} THEN "prepare_output" ELSE "makeaxes"

after_makeaxes(f) ==
  CASE f = "c2r_internal" -> "lastsize"
    [] f \in {"separable_hartley_internal", "complex2hartley"} -> "release"
    [] OTHER -> "prepare_output"

after_prepare_output(f) ==
  IF f \in {"separable_hartley_internal", "complex2hartley"} THEN "makeaxes" ELSE "release"

\* The element type the template function requires of its result.
result_dtype(f, T_) ==
  IF f \in {"c2c_internal", "c2c_sym_internal", "r2c_internal"}
  THEN ComplexDtype(T_) ELSE RealDtype(T_)

r2c_dims_out_Highest(dims, ax) ==
  [dims EXCEPT ![Len(dims)] = (dims[Len(dims)] \div 2) + 1]

\* r2c_internal: dims_out[axes.back()] = (dims_out[axes.back()]>>1)+1
r2c_dims_out(dims, ax) ==
  [dims EXCEPT ![Last(ax) + 1] = (dims[Last(ax) + 1] \div 2) + 1]

\* The shape the template function asks prepare_output for.
result_dims(f) ==
  CASE f = "r2c_internal" -> r2c_dims_out(dims_in, axes)
    [] f = "c2r_internal" -> c2r_dims_out
    [] OTHER -> dims_in

\* The shape the template function hands to norm_fct: dims_out in
\* c2r_internal, the input's shape in the others.
norm_dims_c2r_Input(f) == dims_in

norm_dims(f) == IF f = "c2r_internal" THEN c2r_dims_out ELSE dims_in

\* The shape the template function hands to the kernel.
kernel_dims(f) == IF f = "c2r_internal" THEN c2r_dims_out ELSE dims_in

\* c2r_internal: the inference of lastsize and its check against the input.
c2r_lastsize(l, n) ==
  LET ls == IF l = 0 THEN 2 * n - 1 ELSE l
  IN  IF (ls \div 2) + 1 # n THEN Err("bad lastsize") ELSE Ok(ls)

\* genuine_hartley calls r2c with None in the place of out.
first_stage_out_PassThrough(o) == o

first_stage_out(o) == NoArr

FirstStage == op = "genuine_hartley" /\ fn = "r2c_internal"

Throw(msg) == pc' = "raised" /\ err' = msg /\ NoLocals

\* The process dies of an access outside the result array.
Crash ==
  /\ pc' = "crashed" /\ ub' = TRUE /\ NoLocals
  /\ inorm' = NoInt /\ lastsize_' = NoInt /\ out_' = UnreadArr
  /\ UNCHANGED <<op, dims_in, err, gil>>

\* A public operation is called: DISPATCH on the input's element type.
Call(o, dt, shp) ==
  /\ pc = "idle"
  /\ op' = o
  /\ dims_in' = shp
  /\ IF dispatch_T(o, dt) = "unsupported"
     THEN Throw("unsupported data type")
     ELSE /\ fn' = first_fn(o, dt)
          /\ T' = dispatch_T(o, dt)
          /\ pc' = first_step(first_fn(o, dt))
          /\ UNCHANGED <<axes_, axes, lastsize, fct, fresh, res, tmp, iin, iout, err>>
  /\ UNCHANGED <<lastsize_, inorm, out_, gil, ub>>

\* auto axes = makeaxes(in, axes_)
DoMakeaxes(a) ==
  /\ pc = "makeaxes"
  /\ LET r == makeaxes(Len(dims_in), a)
     IN  IF ~r.ok
         THEN Throw(r.err)
         ELSE /\ axes' = r.val
              /\ axes_' = IF FirstStage THEN a ELSE UnreadAxes
              /\ pc' = after_makeaxes(fn)
              /\ UNCHANGED <<fn, T, lastsize, fct, fresh, res, tmp, iin, iout, err>>
  /\ UNCHANGED <<op, dims_in, lastsize_, inorm, out_, gil, ub>>

\* c2r_internal: if (lastsize==0) ...; if ((lastsize/2) + 1 != dims_in[axis]) throw
DoLastsize(l) ==
  /\ pc = "lastsize"
  /\ lastsize_' = l
  /\ LET r == c2r_lastsize(l, dims_in[Last(axes) + 1])
     IN  IF ~r.ok
         THEN Throw(r.err)
         ELSE /\ lastsize' = r.val
              /\ pc' = "prepare_output"
              /\ UNCHANGED <<fn, T, axes_, axes, fct, fresh, res, tmp, iin, iout, err>>
  /\ UNCHANGED <<op, dims_in, inorm, out_, gil, ub>>

\* auto res = prepare_output<...>(out_, dims)
DoPrepareOutput(o) ==
  /\ pc = "prepare_output"
  /\ LET passed == IF FirstStage THEN first_stage_out(o) ELSE o
         unread == FirstStage /\ passed = NoArr
         r      == prepare_output(result_dtype(fn, T), passed)
     IN  /\ unread => o = NoArr
         /\ out_' = IF unread THEN out_ ELSE o
         /\ IF ~r.ok
            THEN Throw(r.err)
            ELSE /\ res' = r.val
                 /\ fresh' = IF r.val = "fresh"
                             THEN NewArr(result_dtype(fn, T), result_dims(fn))
                             ELSE NoArr
                 /\ pc' = after_prepare_output(fn)
                 /\ T' = IF FirstStage THEN T ELSE "none"
                 /\ UNCHANGED <<fn, axes_, axes, lastsize, fct, tmp, iin, iout, err>>
  /\ UNCHANGED <<op, dims_in, lastsize_, inorm, gil, ub>>

\* py::gil_scoped_release release; (complex2hartley then builds its iterators)
GilRelease ==
  /\ pc = "release"
  /\ gil' = gil_release(gil)
  /\ IF fn = "complex2hartley"
     THEN /\ iin' = simple_iter(tmp.shape)
          /\ iout' = rev_iter(ResArr.shape, axes)
          /\ pc' = "hartley_check"
     ELSE /\ pc' = "norm_fct"
          /\ UNCHANGED <<iin, iout>>
  /\ UNCHANGED <<op, fn, T, dims_in, axes_, axes, lastsize_, lastsize, inorm, fct,
                 out_, fresh, res, tmp, err, ub>>

\* T fct = norm_fct<T>(inorm, dims, axes)
DoNormFct(i) ==
  /\ pc = "norm_fct"
  /\ inorm' = i
  /\ LET r == norm_fct(i, norm_dims(fn), axes)
     IN  IF ~r.ok
         THEN Throw(r.err) /\ gil' = scope_exit_throw(gil)
         ELSE /\ fct' = r.val
              /\ pc' = "kernel"
              /\ UNCHANGED <<fn, T, axes_, axes, lastsize, fresh, res, tmp, iin, iout,
                             err, gil>>
  /\ UNCHANGED <<op, dims_in, lastsize_, out_, ub>>

\* ------------------------------------------------- the released region
\* The array the kernel writes, after it wrote the first j positions.
Written(arr, j) ==
  KernelWrite(arr, fn, kernel_dims(fn), axes,
              kernel_out_dims(fn, kernel_dims(fn), axes), j)

KernelPositions == Prod(kernel_out_dims(fn, kernel_dims(fn), axes))

KernelOutOfBounds == OutOfBounds(ResArr.shape, kernel_out_dims(fn, kernel_dims(fn), axes))

\* The kernel returns.  The plain operations leave the released block and
\* return res; c2c_sym_internal goes on to its mirror pass; the r2c call of
\* genuine_hartley returns the spectrum, which complex2hartley is then
\* dispatched on.
KernelReturn ==
  /\ pc = "kernel"
  /\ ub' = (ub \/ KernelOutOfBounds)
  /\ inorm' = NoInt /\ fct' = NoScale
  /\ LET w == Written(ResArr, KernelPositions)
     IN  /\ out_' = IF res = "out_" THEN w ELSE out_
         /\ fresh' = IF FirstStage THEN NoArr ELSE IF res = "fresh" THEN w ELSE fresh
         /\ tmp' = IF FirstStage THEN w ELSE tmp
  /\ CASE fn = "c2c_sym_internal" ->
            /\ iout' = rev_iter(dims_in, axes)
            /\ pc' = "sym_loop"
            /\ UNCHANGED <<fn, axes, res, gil>>
       [] FirstStage ->
            /\ gil' = scope_exit(gil)
            /\ fn' = "complex2hartley"
            /\ axes' = <<>>
            /\ res' = "none"
            /\ pc' = first_step("complex2hartley")
            /\ UNCHANGED iout
       [] OTHER ->
            /\ gil' = scope_exit(gil)
            /\ pc' = "returned"
            /\ UNCHANGED <<fn, axes, res, iout>>
  /\ UNCHANGED <<op, T, dims_in, axes_, lastsize_, lastsize, iin, err>>

\* The kernel throws after it wrote the first j positions of its output.
KernelThrow(j) ==
  /\ pc = "kernel"
  /\ res # "out_" => j = 0
  /\ ub' = (ub \/ (j = KernelPositions /\ KernelOutOfBounds))
  /\ out_' = IF res = "out_" THEN Written(out_, j) ELSE out_
  /\ inorm' = NoInt
  /\ Throw("kernel error")
  /\ gil' = scope_exit_throw(gil)
  /\ UNCHANGED <<op, dims_in, lastsize_>>

\* The kernel was given strides that lead outside the result array: the
\* process may die.
KernelCrash ==
  /\ pc = "kernel"
  /\ KernelOutOfBounds
  /\ Crash

\* ------------------------------------------- c2c_sym_internal: the pass
\* auto v = ares[iter.ofs()]; ares[iter.rev_ofs()] = conj(v);
c2c_sym_body(data, o, r) == [data EXCEPT ![r + 1] = conj(data[o + 1])]

SymOfs == ofs(iout, copy_strides(ResArr.shape))

SymRevOfs == rev_ofs(iout, dims_in, axes, copy_strides(ResArr.shape))

SymInBounds == SymOfs < Len(ResArr.data) /\ SymRevOfs < Len(ResArr.data)

\* One turn of the loop.  ares has the input's shape and the result's
\* strides: on a result of another shape an offset may lie outside it, and
\* the access is then undefined (here: it hits foreign memory and the loop
\* goes on, or the process dies in SymCrash).
SymStep ==
  /\ pc = "sym_loop"
  /\ iout.rem > 0
  /\ IF SymInBounds
     THEN /\ out_' = IF res = "out_"
                     THEN [out_ EXCEPT !.data = c2c_sym_body(out_.data, SymOfs, SymRevOfs)]
                     ELSE out_
          /\ fresh' = IF res = "fresh"
                      THEN [fresh EXCEPT !.data = c2c_sym_body(fresh.data, SymOfs, SymRevOfs)]
                      ELSE fresh
          /\ UNCHANGED ub
     ELSE ub' = TRUE /\ UNCHANGED <<out_, fresh>>
  /\ iout' = advance(iout)
  /\ UNCHANGED <<pc, op, fn, T, dims_in, axes_, axes, lastsize_, lastsize, inorm, fct,
                 res, tmp, iin, err, gil>>

SymCrash ==
  /\ pc = "sym_loop"
  /\ iout.rem > 0
  /\ ~SymInBounds
  /\ Crash

\* The loop ends, the released block is left, res is returned.
SymReturn ==
  /\ pc = "sym_loop"
  /\ iout.rem = 0
  /\ gil' = scope_exit(gil)
  /\ pc' = "returned"
  /\ UNCHANGED <<op, fn, T, dims_in, axes_, axes, lastsize_, lastsize, inorm, fct,
                 out_, fresh, res, tmp, iin, iout, err, ub>>

\* -------------------------------------------- complex2hartley: the fold
\* if (iin.remaining()!=iout.remaining()) throw runtime_error("oops");
hartley_check(a, b) == a.rem = b.rem

complex2hartley_body_NoMirror(data, v, o, r) == [data EXCEPT ![o + 1] = Val(v.re + v.im, 0)]

\* aout[iout.ofs()] = v.r+v.i; aout[iout.rev_ofs()] = v.r-v.i;
complex2hartley_body(data, v, o, r) ==
  [[data EXCEPT ![o + 1] = Val(v.re + v.im, 0)] EXCEPT ![r + 1] = Val(v.re - v.im, 0)]

HartleyV == tmp.data[ofs(iin, copy_strides(tmp.shape)) + 1]

HartleyOfs == ofs(iout, copy_strides(ResArr.shape))

HartleyRevOfs == rev_ofs(iout, ResArr.shape, axes, copy_strides(ResArr.shape))

HartleyCheck ==
  /\ pc = "hartley_check"
  /\ IF ~hartley_check(iin, iout)
     THEN Throw("oops") /\ gil' = scope_exit_throw(gil)
     ELSE /\ pc' = "hartley_loop"
          /\ UNCHANGED <<fn, T, axes_, axes, lastsize, fct, fresh, res, tmp, iin, iout,
                         err, gil>>
  /\ UNCHANGED <<op, dims_in, lastsize_, inorm, out_, ub>>

HartleyStep ==
  /\ pc = "hartley_loop"
  /\ iin.rem > 0
  /\ out_' = IF res = "out_"
             THEN [out_ EXCEPT !.data =
                     complex2hartley_body(out_.data, HartleyV, HartleyOfs, HartleyRevOfs)]
             ELSE out_
  /\ fresh' = IF res = "fresh"
              THEN [fresh EXCEPT !.data =
                      complex2hartley_body(fresh.data, HartleyV, HartleyOfs, HartleyRevOfs)]
              ELSE fresh
  /\ iin' = advance(iin)
  /\ iout' = advance(iout)
  /\ UNCHANGED <<pc, op, fn, T, dims_in, axes_, axes, lastsize_, lastsize, inorm, fct,
                 res, tmp, err, gil, ub>>

HartleyReturn ==
  /\ pc = "hartley_loop"
  /\ iin.rem = 0
  /\ gil' = scope_exit(gil)
  /\ pc' = "returned"
  /\ UNCHANGED <<op, fn, T, dims_in, axes_, axes, lastsize_, lastsize, inorm, fct,
                 out_, fresh, res, tmp, iin, iout, err, ub>>

\* The caller goes on after the call returned or raised.
Reset ==
  /\ pc \in {"returned", "raised"}
  /\ pc' = "idle" /\ op' = "none" /\ dims_in' = <<>> /\ NoLocals
  /\ lastsize_' = NoInt /\ inorm' = NoInt /\ out_' = UnreadArr /\ err' = ""
  /\ ub' = FALSE
  /\ UNCHANGED gil

Next ==
  \/ (pc = "idle" /\ \E o \in Ops, dt \in Dtypes, shp \in Shapes : Call(o, dt, shp))
  \/ (pc = "makeaxes" /\ \E a \in AxesArgsLeft : DoMakeaxes(a))
  \/ (pc = "lastsize" /\ \E l \in LastsizeArgs : DoLastsize(l))
  \/ (pc = "prepare_output" /\ \E o \in OutArgsLeft : DoPrepareOutput(o))
  \/ GilRelease
  \/ (pc = "norm_fct" /\ \E i \in InormArgs : DoNormFct(i))
  \/ KernelReturn
  \/ (pc = "kernel" /\ \E j \in {0, 1, KernelPositions} : KernelThrow(j))
  \/ KernelCrash
  \/ SymStep
  \/ SymCrash
  \/ SymReturn
  \/ HartleyCheck
  \/ HartleyStep
  \/ HartleyReturn
  \/ Reset

Spec == Init /\ [][Next]_vars

\* ------------------------------------------- makeaxes as a pure function
AxesInputs(ndim) ==
  {NoneAxes} \cup {ListAxes(l) : l \in SeqsUpTo((0 - ndim - 1)..ndim, ndim + 1)}

InitAxes ==
  /\ pc = "axes_in" /\ op = "none" /\ fn = "none" /\ T = "none"
  /\ \E r \in 0..AxMaxRank :
       /\ dims_in = [i \in 1..r |-> 1]
       /\ axes_ \in AxesInputs(r)
  /\ axes = <<>>
  /\ lastsize_ = NoInt /\ lastsize = NoInt /\ inorm = NoInt /\ fct = NoScale
  /\ out_ = UnreadArr /\ fresh = NoArr /\ res = "none" /\ tmp = NoArr
  /\ iin = NoIter /\ iout = NoIter /\ err = "" /\ gil = 1 /\ ub = FALSE

ApplyMakeaxes ==
  /\ pc = "axes_in"
  /\ LET r == makeaxes(Len(dims_in), axes_)
     IN  /\ pc' = IF r.ok THEN "axes_out" ELSE "axes_raised"
         /\ axes' = r.val
         /\ err' = r.err
  /\ UNCHANGED <<op, fn, T, dims_in, axes_, lastsize_, lastsize, inorm, fct, out_, fresh,
                 res, tmp, iin, iout, gil, ub>>

NextAxes == ApplyMakeaxes

SpecAxes == InitAxes /\ [][NextAxes]_vars

\* =============================================================== claims
\* Positions of the call at which the kernel or one of the two mirror
\* passes is at work.
AtWork == pc \in {"kernel", "sym_loop", "hartley_check", "hartley_loop"}

\* An out array was supplied by the caller and has been read by the call.
OutSupplied == out_.dtype \notin {"none", "unread"}

\* ------------------------------------------------------------------- C1
\* C1: makeaxes(rank, axes).  With axes absent the result is 0, 1, ...,
\* rank-1.  With axes present the call raises when the list is empty or
\* longer than rank; otherwise rank is added to every negative entry, the call
\* raises when an entry is then < 0 or >= rank, and else returns the
\* normalized entries in the caller's order.
C1_Normalized(rank, l) == [i \in 1..Len(l) |-> IF l[i] < 0 THEN l[i] + rank ELSE l[i]]

C1_Rejected(rank, l) ==
  \/ Len(l) = 0
  \/ Len(l) > rank
  \/ \E i \in 1..Len(l) : C1_Normalized(rank, l)[i] < 0 \/ C1_Normalized(rank, l)[i] >= rank

C1_makeaxes_contract ==
  pc \in {"axes_out", "axes_raised"} =>
    LET rank == Len(dims_in) IN
    IF axes_.none
    THEN pc = "axes_out" /\ Len(axes) = rank /\ \A i \in 1..rank : axes[i] = i - 1
    ELSE IF C1_Rejected(rank, axes_.list)
         THEN pc = "axes_raised" /\ err # ""
         ELSE pc = "axes_out" /\ axes = C1_Normalized(rank, axes_.list)

\* On a rank-3 array axes = [-1] resolves to [2].
C1_witness ==
  pc = "axes_out" /\ Len(dims_in) = 3 /\ axes_ = ListAxes(<<0 - 1>>) /\ axes = <<2>>

\* ------------------------------------------------------------------- C3
\* C3: when no out array is supplied, the returned array has, for r2c, the
\* input's shape with the axis that is last in the order of the axes replaced
\* by floor(n/2) + 1; for c2r, the input's shape with that axis replaced by
\* lastsize; for every other operation, the input's shape.
C3_Shape ==
  CASE op = "r2c" -> [d \in 1..Len(dims_in) |->
                        IF d = axes[Len(axes)] + 1 THEN (dims_in[d] \div 2) + 1 ELSE dims_in[d]]
    [] op = "c2r" -> [d \in 1..Len(dims_in) |->
                        IF d = axes[Len(axes)] + 1 THEN lastsize ELSE dims_in[d]]
    [] OTHER -> dims_in

C3_fresh_output_shape ==
  pc = "returned" /\ out_.dtype = "none" => res = "fresh" /\ fresh.shape = C3_Shape

\* r2c on shape [3,1] with axes [1,0]: axis 0 is halved, not axis 1.
C3_witness ==
  /\ pc = "returned" /\ op = "r2c" /\ out_.dtype = "none"
  /\ dims_in = <<3, 1>> /\ axes = <<1, 0>> /\ fresh.shape = <<2, 1>>

\* ------------------------------------------------------------------- C4
\* C4: the scale factor handed to the kernel is 1 for inorm = 0, 1/sqrt(N)
\* for inorm = 1 and 1/N for inorm = 2, N being the product of shape[a] over
\* the axes a, on the input's shape, and for c2r on the output's shape (lastsize
\* on the last transformed axis); any other inorm raises an invalid-argument
\* error and the kernel is not reached.
C4_NormShape ==
  IF op = "c2r"
  THEN [d \in 1..Len(dims_in) |-> IF d = axes[Len(axes)] + 1 THEN lastsize ELSE dims_in[d]]
  ELSE dims_in

RECURSIVE C4_N(_)
C4_N(k) == IF k = 0 THEN 1 ELSE C4_NormShape[axes[k] + 1] * C4_N(k - 1)

C7_Released == pc \in {"norm_fct", "kernel", "sym_loop", "hartley_check", "hartley_loop"}

C7_lock_discipline ==
  /\ gil \in {0, 1}
  /\ C7_Released => gil = 0
  /\ pc \in {"idle", "makeaxes", "lastsize", "prepare_output", "release",
             "returned", "raised"} => gil = 1

\* The Hartley fold raised its consistency error and the lock is held again.
C7_witness == pc = "raised" /\ err = "oops" /\ gil = 1

\* ------------------------------------------------------------------ C10
\* C10: when a call raises one of the errors of the front end (bad axes, bad
\* inorm, unsupported element type, wrong element type of out, bad lastsize,
\* the consistency error of the Hartley fold), the caller's out array holds
\* what it held before the call.
C10_Errors ==
  {"bad axes argument", "axes exceeds dimensionality of output",
   "invalid value for inorm (must be 0, 1, or 2)", "unsupported data type",
   "unexpected data type for output array", "bad lastsize", "oops"}

C10_no_write_before_error ==
  pc = "raised" /\ err \in C10_Errors /\ OutSupplied =>
    \A i \in 1..Len(out_.data) : out_.data[i] = InitElem(i - 1)

\* genuine_hartley raised in its second stage, after the kernel of the first
\* stage had run.
C10_witness ==
  /\ pc = "raised" /\ op = "genuine_hartley" /\ err = "oops"
  /\ OutSupplied /\ Len(out_.data) > 0

\* ------------------------------------------------------------------- C5
\* C5: a caller's out array becomes the result of an operation only if it
\* has the element type and the shape the operation requires of its output;
\* with any other out the call raises, and neither the kernel nor a pass is
\* run on it.
C5_out_reused_only_if_matching ==
  [][pc = "prepare_output" /\ res' = "out_" =>
       /\ out_'.dtype = result_dtype(fn, T)
       /\ out_'.shape = result_dims(fn)]_vars

\* ------------------------------------------------------------------- C6
\* C6: the axes that reach the kernel or a mirror pass are distinct indices
\* in [0, rank), at least one and at most rank of them: an axes argument that
\* names an axis twice is rejected.
C6_InRange ==
  /\ 1 <= Len(axes) /\ Len(axes) <= Len(dims_in)
  /\ \A i \in 1..Len(axes) : 0 <= axes[i] /\ axes[i] < Len(dims_in)

C2_lastsize_and_output_length ==
  [][/\ pc = "lastsize" =>
          LET n == dims_in[axes[Len(axes)] + 1]
              l == lastsize_'
          IN  IF l = 0
              THEN pc' = "prepare_output" /\ lastsize' = 2 * n - 1
              ELSE IF (l \div 2) + 1 = n
                   THEN /\ pc' = "prepare_output" /\ lastsize' = l
                        /\ l \in {2 * n - 2, 2 * n - 1}
                   ELSE pc' = "raised" /\ err' = "bad lastsize"
     /\ pc' = "returned" /\ op' = "c2r" =>
          ResArr'.shape[axes'[Len(axes')] + 1] = lastsize']_vars

\* ------------------------------------------------------------------- C8
\* C8: c2c of a real input returns a complex array of the input's shape in
\* which every element was written by the kernel or by the pass, and in which,
\* for every position k of the forward half, the element at the mirror of k
\* (every transformed coordinate i replaced by (length - i) mod length) is the
\* conjugate of the element at k.
C8_Forward ==
  {k \in [1..Len(dims_in) -> 0..MaxDim] :
     \A d \in 1..Len(dims_in) :
       k[d] < (IF d = axes[Len(axes)] + 1 THEN (dims_in[d] \div 2) + 1 ELSE dims_in[d])}

C8_MirrorOf(k) ==
  [d \in 1..Len(k) |->
     IF \E i \in 1..Len(axes) : axes[i] + 1 = d
     THEN (dims_in[d] - k[d]) % dims_in[d] ELSE k[d]]

C8_At(k) == ResArr.data[Dot(k, copy_strides(dims_in)) + 1]

C8_symmetry_completed ==
  pc = "returned" /\ fn = "c2c_sym_internal" =>
    /\ ResArr.shape = dims_in
    /\ \A i \in 1..Len(ResArr.data) : ResArr.data[i].kind = "val"
    /\ \A k \in C8_Forward :
         /\ C8_At(C8_MirrorOf(k)).re = C8_At(k).re
         /\ C8_At(C8_MirrorOf(k)).im = 0 - C8_At(k).im

\* The result is an array the call allocated, or a caller's out array of the
\* shape the operation requires.
ResultWellShaped == res = "fresh" \/ (res = "out_" /\ out_.shape = result_dims(fn))

\* C2, C8 on the calls whose result is well shaped: the output of c2r has
\* lastsize entries on the last of the axes, and the output of c2c of a real
\* input is complete and conjugate-symmetric.
C2_output_length_when_well_shaped ==
  pc = "returned" /\ op = "c2r" /\ ResultWellShaped =>
    ResArr.shape[axes[Len(axes)] + 1] = lastsize

C8_symmetry_when_well_shaped ==
  pc = "returned" /\ fn = "c2c_sym_internal" /\ ResultWellShaped =>
    /\ ResArr.shape = dims_in
    /\ \A i \in 1..Len(ResArr.data) : ResArr.data[i].kind = "val"
    /\ \A k \in C8_Forward :
         /\ C8_At(C8_MirrorOf(k)).re = C8_At(k).re
         /\ C8_At(C8_MirrorOf(k)).im = 0 - C8_At(k).im

\* ------------------------------------------------------------------- C9
\* C9: complex2hartley.  The iterator over the spectrum and the mirror
\* iterator over the output have equal counts of elements left at every turn
\* of the loop; the consistency error is raised exactly when the counts differ
\* at the start, which they do not for an output of the input's shape; each
\* turn takes the element v of the spectrum at the forward position and writes
\* v.re + v.im at the output's forward offset k, then v.re - v.im at the
\* mirror offset of k; when the pass has ended on an output of the input's
\* shape, every element of the output has been written.
C9_k == Dot(iout.pos, copy_strides(ResArr.shape))

C9_m ==
  Dot([d \in 1..Len(iout.pos) |->
         IF \E i \in 1..Len(axes) : axes[i] + 1 = d
         THEN (ResArr.shape[d] - iout.pos[d]) % ResArr.shape[d] ELSE iout.pos[d]],
      copy_strides(ResArr.shape))

C9_v == tmp.data[Dot(iin.pos, copy_strides(tmp.shape)) + 1]

C9_Counts ==
  /\ pc = "hartley_loop" => iin.rem = iout.rem
  /\ pc = "hartley_check" /\ ResArr.shape = dims_in => iin.rem = iout.rem
  /\ pc = "returned" /\ op = "genuine_hartley" /\ ResArr.shape = dims_in =>
       \A i \in 1..Len(ResArr.data) : ResArr.data[i].kind = "val"

C9_Turn ==
  /\ pc = "hartley_check" =>
       IF iin.rem = iout.rem THEN pc' = "hartley_loop"
       ELSE pc' = "raised" /\ err' = "oops"
  /\ pc = "hartley_loop" /\ iin.rem > 0 =>
       /\ pc' = "hartley_loop"
       /\ iin'.rem = iin.rem - 1 /\ iout'.rem = iout.rem - 1
       /\ ResArr'.data =
            [n \in 1..Len(ResArr.data) |->
               IF n = C9_m + 1 THEN [kind |-> "val", re |-> C9_v.re - C9_v.im, im |-> 0]
               ELSE IF n = C9_k + 1
                    THEN [kind |-> "val", re |-> C9_v.re + C9_v.im, im |-> 0]
                    ELSE ResArr.data[n]]
  /\ pc = "hartley_loop" /\ iin.rem = 0 => pc' = "returned"

C9_hartley_fold == []C9_Counts /\ [][C9_Turn]_vars

\* The fold has ended on an output of shape [3,1], in which the positions
\* (1,0) and (2,0) are each other's mirror.
C9_witness ==
  /\ pc = "hartley_loop" /\ iin.rem = 0 /\ iout.rem = 0
  /\ dims_in = <<3, 1>> /\ ResArr.shape = dims_in /\ axes = <<0, 1>>

====
